---- MODULE Spec2Model ----
(***************************************************************************)
(* Model of the two batch utilities of the repository:                     *)
(*   scripts/pdf_image_extractor.py  (PDFImageExtractor)                   *)
(*   scripts/nombres_prefijos.py     (ImageRenamer)                        *)
(* A Python str is modelled as a sequence of one-character strings.        *)
(***************************************************************************)
EXTENDS Integers, Sequences, FiniteSets, TLC

VARIABLES
    pc,                   \* position of the running call
    doc,                  \* self.doc: "None" or "open"
    banco_preguntas,      \* self.banco_preguntas
    pdf_prefix,           \* self.pdf_prefix
    npages,               \* len(self.doc)
    page_num,             \* loop variable of extract_all_images
    nimgs,                \* len(image_list) of the current page
    img_index,            \* loop variable of extract_images_from_page
    image_counter,        \* self.image_counter
    extracted_images,     \* the list extract_images_from_page builds
    all_extracted_images, \* the list extract_all_images builds
    files,                \* image files completely written to output_folder
    partial,              \* files created by open() whose write() raised
    report,               \* reporte_extraccion.txt: <<>> until it is written
    log,                  \* the lines printed for the images, in order
    result,               \* value returned by extract_all_images
    fn,                   \* the function a single-call run applies
    arg,                  \* its argument
    ret                   \* its return value

vars == <<pc, doc, banco_preguntas, pdf_prefix, npages, page_num, nimgs,
          img_index, image_counter, extracted_images, all_extracted_images,
          files, partial, report, log, result, fn, arg, ret>>

pipeVars == <<doc, banco_preguntas, pdf_prefix, npages, page_num, nimgs,
              img_index, image_counter, extracted_images,
              all_extracted_images, files, partial, report, log, result>>

(***************************************************************************)
(* Characters and the str methods the code uses                            *)
(***************************************************************************)
\* The alphabet of the model is a bound: ISO 8859-1 without U+0000 and the
\* grave accent, the characters that str.lower() and str.capitalize() make
\* of these, and from the rest of Unicode the decimal digits U+06F0 to
\* U+06F9, the subscript zero, the Ogham space mark, the Greek omega and
\* the three sigmas, the digraph U+01C6 with its title case U+01C5, the
\* capital sharp s, and the Armenian ligature U+0587 with the letters its
\* title case is made of.  The classes and conversions below are defined
\* on the alphabet and on nothing else.
\*
\* Four of these characters cannot be written in a string of this language:
\* one named element of a sequence stands for each of them.
Named ==
    [CapitalYDiaeresis |-> "U+0178", CapitalEch |-> "U+0535",
     SmallEch |-> "U+0565", CapitalYiwn |-> "U+0552"]

\* the decimal digits: what the class \d matches and int() reads
Digits ==
    {"0", "1", "2", "3", "4", "5", "6", "7", "8", "9",
     "۰", "۱", "۲", "۳", "۴", "۵", "۶", "۷", "۸", "۹"}

\* the letters str.capitalize() changes into one letter that str.lower()
\* changes back, and at the same place in UpperLetters that letter
LowerLetters ==
    <<"a", "b", "c", "d", "e", "f", "g", "h", "i", "j", "k", "l", "m", "n", "o", "p", "q", "r", "s", "t", "u", "v", "w", "x", "y", "z">> \o <<"à", "á", "â", "ã", "ä", "å", "æ", "ç", "è", "é", "ê", "ë", "ì", "í", "î", "ï", "ð", "ñ", "ò", "ó", "ô", "õ", "ö", "ø", "ù", "ú", "û", "ü", "ý", "þ">>
        \o <<"ÿ", "μ", "ω", "σ", "ǆ", Named.SmallEch, "ւ">>

\* the letters str.lower() changes, and at the same place in LowerLetters
\* the letter it gives (the capital sharp s comes apart: see ToLower)
UpperLetters ==
    <<"A", "B", "C", "D", "E", "F", "G", "H", "I", "J", "K", "L", "M", "N", "O", "P", "Q", "R", "S", "T", "U", "V", "W", "X", "Y", "Z">> \o <<"À", "Á", "Â", "Ã", "Ä", "Å", "Æ", "Ç", "È", "É", "Ê", "Ë", "Ì", "Í", "Î", "Ï", "Ð", "Ñ", "Ò", "Ó", "Ô", "Õ", "Ö", "Ø", "Ù", "Ú", "Û", "Ü", "Ý", "Þ">>
        \o <<Named.CapitalYDiaeresis, "Μ", "Ω", "Σ", "ǅ", Named.CapitalEch,
             Named.CapitalYiwn>>

\* the characters of \w that have no case mapping: str.lower() and
\* str.capitalize() leave them as they are
OtherWordChars == {"ª", "º", "¹", "²", "³", "¼", "½", "¾", "₀"}

\* the characters str.split(), str.strip() and the class \s take for
\* whitespace: U+0009 to U+000D, U+001C to U+001F, the space, U+0085,
\* U+00A0, U+1680
Whitespace ==
    {"\t", "\n", "", "\f", "\r", "", "", "", "", " ", "", " ", " "}

Range(s) == {s[i] : i \in DOMAIN s}

\* the characters str.capitalize() changes
LowerCased == Range(LowerLetters) \cup {"µ", "ß", "ς", "և"}

\* the characters str.lower() changes
UpperCased == Range(UpperLetters) \cup {"ẞ"}

Alphabet ==
    Digits \cup LowerCased \cup UpperCased \cup OtherWordChars \cup Whitespace
        \cup {"_",
              "", "", "", "", "", "", "", "", "", "", "", "",
              "", "", "", "", "", "", "", "", "", "", "!", "\"",
              "#", "$", "%", "&", "'", "(", ")", "*", "+", ",", "-", ".",
              "/", ":", ";", "<", "=", ">", "?", "@", "[", "\\", "]", "^",
              "{", "|", "}", "~", "", "", "", "", "", "", "", "",
              "", "", "", "", "", "", "", "", "", "", "", "",
              "", "", "", "", "", "", "", "", "", "", "", "",
              "¡", "¢", "£", "¤", "¥", "¦", "§", "¨", "©", "«", "¬", "­",
              "®", "¯", "°", "±", "´", "¶", "·", "¸", "»", "¿", "×", "÷"}

IsLower(c) == CASE c \in Alphabet -> c \in LowerCased

IsUpper(c) == CASE c \in Alphabet -> c \in UpperCased

\* str.lower() on one character, whatever stands around it
ToLower(c) ==
    IF c = "ẞ" THEN "ß"
    ELSE IF IsUpper(c)
    THEN LowerLetters[CHOOSE i \in DOMAIN UpperLetters : UpperLetters[i] = c]
    ELSE c

\* str.capitalize() on one character: the title case, which is two
\* characters for 'ß' and for U+0587
ToTitle(c) ==
    IF c = "ß" THEN <<"S", "s">>
    ELSE IF c = "և" THEN <<Named.CapitalEch, "ւ">>
    ELSE IF c = "µ" THEN <<"Μ">>
    ELSE IF c = "ς" THEN <<"Σ">>
    ELSE IF IsLower(c)
    THEN <<UpperLetters[CHOOSE i \in DOMAIN LowerLetters : LowerLetters[i] = c]>>
    ELSE <<c>>

\* the regular-expression class \d
IsDigit(c) == CASE c \in Alphabet -> c \in Digits

\* the regular-expression class \w
IsWord(c) ==
    IsDigit(c) \/ IsLower(c) \/ IsUpper(c) \/ c \in OtherWordChars \/ c = "_"

\* the regular-expression class \s
IsSpace(c) == CASE c \in Alphabet -> c \in Whitespace

Min(a, b) == IF a <= b THEN a ELSE b

Max(a, b) == IF a >= b THEN a ELSE b

\* s[:n]
Take(s, n) == SubSeq(s, 1, Min(n, Len(s)))

\* s[n:] (n is 0-based as in Python)
Drop(s, n) == SubSeq(s, n + 1, Len(s))

\* the character str.lower() puts for s[i]: a capital sigma becomes the
\* final sigma when a cased character stands before it and none after it,
\* the characters that case mapping ignores being skipped on both sides
LowerAt(s, i) ==
    IF s[i] # "Σ" THEN ToLower(s[i])
    ELSE LET Ignorable == {"'", ".", ":", "^", "¨", "­", "¯", "´", "·",
                              "¸"}
             Cased(c) == IsLower(c) \/ IsUpper(c) \/ c \in {"ª", "º"}
             before == {j \in 1..(i - 1) : s[j] \notin Ignorable}
             after == {j \in (i + 1)..Len(s) : s[j] \notin Ignorable}
             last == CHOOSE j \in before : \A k \in before : k <= j
             next == CHOOSE j \in after : \A k \in after : j <= k
         IN  IF /\ before # {}
                /\ Cased(s[last])
                /\ (after = {} \/ ~Cased(s[next]))
             THEN "ς"
             ELSE "σ"

\* str.lower()
LowerStr(s) == [i \in DOMAIN s |-> LowerAt(s, i)]

\* str.capitalize(): first character title case, the rest lower case
Capitalize(w) ==
    IF w = <<>> THEN <<>>
    ELSE ToTitle(w[1]) \o [i \in 1..(Len(w) - 1) |-> LowerAt(w, i + 1)]

\* ''.join(parts)
RECURSIVE Join(_)
Join(parts) ==
    IF parts = <<>> THEN <<>> ELSE Head(parts) \o Join(Tail(parts))

\* sub in s (substring test); the empty string is in every string
StartsAt(s, i, sub) ==
    /\ i + Len(sub) - 1 <= Len(s)
    /\ \A k \in 1..Len(sub) : s[i + k - 1] = sub[k]

Contains(s, sub) == \E i \in 1..(Len(s) + 1) : StartsAt(s, i, sub)

\* str.split(sep) for a one-character sep: empty fields are kept
RECURSIVE SplitOn(_, _)
SplitOn(s, sep) ==
    IF \A i \in DOMAIN s : s[i] # sep
    THEN <<s>>
    ELSE LET i == CHOOSE i \in DOMAIN s :
                      s[i] = sep /\ \A j \in 1..(i - 1) : s[j] # sep
         IN  <<SubSeq(s, 1, i - 1)>> \o SplitOn(Drop(s, i), sep)

\* number of leading characters of s that satisfy a class
LeadingSpaces(s) ==
    IF \A i \in DOMAIN s : IsSpace(s[i]) THEN Len(s)
    ELSE (CHOOSE i \in DOMAIN s :
              ~IsSpace(s[i]) /\ \A j \in 1..(i - 1) : IsSpace(s[j])) - 1

LeadingNonSpaces(s) ==
    IF \A i \in DOMAIN s : ~IsSpace(s[i]) THEN Len(s)
    ELSE (CHOOSE i \in DOMAIN s :
              IsSpace(s[i]) /\ \A j \in 1..(i - 1) : ~IsSpace(s[j])) - 1

\* str.split() with no argument: split on runs of whitespace, no empty field
RECURSIVE SplitWhitespace(_)
SplitWhitespace(s) ==
    LET t == Drop(s, LeadingSpaces(s))
        n == LeadingNonSpaces(t)
    IN  IF t = <<>> THEN <<>>
        ELSE <<Take(t, n)>> \o SplitWhitespace(Drop(t, n))

\* str.strip()
RECURSIVE StripRight(_)
StripRight(s) ==
    IF s # <<>> /\ IsSpace(s[Len(s)]) THEN StripRight(Take(s, Len(s) - 1))
    ELSE s

Strip(s) == StripRight(Drop(s, LeadingSpaces(s)))

(***************************************************************************)
(* Name sanitizers                                                         *)
(***************************************************************************)
\* re.sub(r'[^\w\s-]', '', s)
RemoveSpecial(s) ==
    SelectSeq(s, LAMBDA c : IsWord(c) \/ IsSpace(c) \/ c = "-")

\* a variant of IsSeparator that leaves the hyphen out
IsSeparator_NoHyphen(c) == IsSpace(c) \/ c = "_"

\* the class [\s_-]
IsSeparator(c) == IsSpace(c) \/ c = "_" \/ c = "-"

\* re.sub(r'[\s_-]+', '_', s): every character that is no separator stays,
\* and every run of separators leaves one "_" where it starts
CollapseSeparators(s) ==
    LET kept == SelectSeq([i \in DOMAIN s |-> i],
                          LAMBDA i : \/ ~IsSeparator(s[i])
                                     \/ i = 1
                                     \/ ~IsSeparator(s[i - 1]))
    IN  [k \in DOMAIN kept |->
            IF IsSeparator(s[kept[k]]) THEN "_" ELSE s[kept[k]]]

NonEmpty(parts) == SelectSeq(parts, LAMBDA w : w # <<>>)

\* ''.join(word.capitalize() for word in words if word)
CamelCase(words) ==
    LET ws == NonEmpty(words)
    IN  Join([i \in DOMAIN ws |-> Capitalize(ws[i])])

BancoMaxLen == 15

PrefixMaxLen == 20

ImportantWordLen == 3

S_BancoPreguntas == <<"B", "a", "n", "c", "o", "P", "r", "e", "g", "u", "n", "t", "a", "s">>

S_PDF == <<"P", "D", "F">>

S_Carpeta == <<"C", "a", "r", "p", "e", "t", "a">>

cbn_Words(banco_name) == SplitWhitespace(RemoveSpecial(banco_name))

clean_banco_name(banco_name) ==
    IF banco_name = <<>> THEN S_BancoPreguntas
    ELSE LET camel_case == CamelCase(cbn_Words(banco_name))
             cut == IF Len(camel_case) > BancoMaxLen
                    THEN Take(camel_case, BancoMaxLen) ELSE camel_case
         IN  IF cut = <<>> THEN S_BancoPreguntas ELSE cut

\* os.path.basename (posixpath): what follows the last "/"
Basename(p) ==
    IF \A i \in DOMAIN p : p[i] # "/" THEN p
    ELSE Drop(p, CHOOSE i \in DOMAIN p :
                     p[i] = "/" /\ \A j \in (i + 1)..Len(p) : p[j] # "/")

\* os.path.splitext(name)[0] for a name without "/": cut at the last dot,
\* unless only dots precede it
SplitextRoot(name) ==
    IF \A i \in DOMAIN name : name[i] # "." THEN name
    ELSE LET d == CHOOSE i \in DOMAIN name :
                      name[i] = "." /\ \A j \in (i + 1)..Len(name) : name[j] # "."
         IN  IF \E j \in 1..(d - 1) : name[j] # "."
             THEN Take(name, d - 1) ELSE name

\* the abbreviation of a prefix longer than 20 characters
Abbreviate(words, camel_case) ==
    LET important_words ==
            SelectSeq(words, LAMBDA w : Len(w) > ImportantWordLen)
    IN  IF important_words = <<>> THEN camel_case
        ELSE IF Len(important_words) <= 3
        THEN Join([i \in DOMAIN important_words |->
                       Take(Capitalize(important_words[i]), 4)])
        ELSE Join([i \in 1..4 |-> Take(Capitalize(important_words[i]), 3)])

epp_Words(filename) ==
    SplitOn(CollapseSeparators(RemoveSpecial(filename)), "_")

extract_pdf_prefix(pdf_path) ==
    LET filename == SplitextRoot(Basename(pdf_path))
        words == epp_Words(filename)
        camel_case == CamelCase(words)
        short == IF Len(camel_case) > PrefixMaxLen
                 THEN LET abbr == Abbreviate(words, camel_case)
                      IN  IF Len(abbr) > PrefixMaxLen
                          THEN Take(abbr, PrefixMaxLen) ELSE abbr
                 ELSE camel_case
    IN  IF short = <<>> THEN S_PDF ELSE short

\* a variant of efp_Truncate that does not cut
efp_Truncate_Off(camel_case) == camel_case

\* lines 43-44 of nombres_prefijos.py
efp_Truncate(camel_case) ==
    IF Len(camel_case) > PrefixMaxLen
    THEN Take(camel_case, PrefixMaxLen) ELSE camel_case

extract_folder_prefix(folder_path) ==
    LET folder_name == Basename(folder_path)
        words == SplitOn(CollapseSeparators(RemoveSpecial(folder_name)), "_")
        camel_case == efp_Truncate(CamelCase(words))
    IN  IF camel_case = <<>> THEN S_Carpeta ELSE camel_case

(***************************************************************************)
(* Regular-expression matching as the code's patterns need it.  A match    *)
(* attempt at position i (1-based) gives the position after the match and  *)
(* the captured groups, or NoMatch.                                        *)
(***************************************************************************)
NoMatch == [end |-> 0, groups |-> <<>>]

\* length of the longest run of digits of s that starts at position i
RECURSIVE DigitRun(_, _)
DigitRun(s, i) ==
    IF i <= Len(s) /\ IsDigit(s[i]) THEN 1 + DigitRun(s, i + 1) ELSE 0

\* length of the longest run of whitespace of s that starts at position i
RECURSIVE SpaceRun(_, _)
SpaceRun(s, i) ==
    IF i <= Len(s) /\ IsSpace(s[i]) THEN 1 + SpaceRun(s, i + 1) ELSE 0

\* the literal lit occurs at position i of s, letter case ignored
LitAtIgnoreCase(s, i, lit) ==
    /\ i >= 1
    /\ i + Len(lit) - 1 <= Len(s)
    /\ \A k \in 1..Len(lit) : ToLower(s[i + k - 1]) = ToLower(lit[k])

S_Pregunta == <<"P", "r", "e", "g", "u", "n", "t", "a">>

\* Pregunta\s+(\d+) when minSpaces = 1, Pregunta\s*(\d+) when minSpaces = 0
PreguntaNumberAt(s, i, minSpaces) ==
    IF ~LitAtIgnoreCase(s, i, S_Pregunta) THEN NoMatch
    ELSE LET j == i + Len(S_Pregunta)
             sp == SpaceRun(s, j)
             d == DigitRun(s, j + sp)
         IN  IF sp >= minSpaces /\ d > 0
             THEN [end |-> j + sp + d,
                   groups |-> <<SubSeq(s, j + sp, j + sp + d - 1)>>]
             ELSE NoMatch

\* a match m of the rest of a pattern, with the group g captured before it
PrependGroup(g, m) ==
    IF m.end > 0 THEN [end |-> m.end, groups |-> <<g>> \o m.groups]
    ELSE NoMatch

\* (\d+)\s+Pregunta\s+(\d+)
NumberPreguntaNumberAt(s, i) ==
    LET d == DigitRun(s, i)
        sp == SpaceRun(s, i + d)
    IN  IF d > 0 /\ sp > 0
        THEN PrependGroup(SubSeq(s, i, i + d - 1),
                          PreguntaNumberAt(s, i + d + sp, 1))
        ELSE NoMatch

\* 1\.(\d+)
OneDotNumberAt(s, i) ==
    LET d == DigitRun(s, i + 2)
    IN  IF i + 1 <= Len(s) /\ s[i] = "1" /\ s[i + 1] = "." /\ d > 0
        THEN [end |-> i + 2 + d, groups |-> <<SubSeq(s, i + 2, i + 1 + d)>>]
        ELSE NoMatch

\* 1\.(\d+)\s+Pregunta\s+(\d+)
OneDotNumberPreguntaNumberAt(s, i) ==
    IF i + 1 <= Len(s) /\ s[i] = "1" /\ s[i + 1] = "."
    THEN NumberPreguntaNumberAt(s, i + 2)
    ELSE NoMatch

\* \b(\d{1,2})\b
StandaloneNumberAt(s, i) ==
    LET d == DigitRun(s, i)
    IN  IF /\ d \in {1, 2}
           /\ (i = 1 \/ ~IsWord(s[i - 1]))
           /\ (i + d > Len(s) \/ ~IsWord(s[i + d]))
        THEN [end |-> i + d, groups |-> <<SubSeq(s, i, i + d - 1)>>]
        ELSE NoMatch

\* the list `patterns` of extract_question_from_text
NumPatterns == 4

PatternAt(p, s, i) ==
    CASE p = 1 -> OneDotNumberPreguntaNumberAt(s, i)
      [] p = 2 -> PreguntaNumberAt(s, i, 1)
      [] p = 3 -> NumberPreguntaNumberAt(s, i)
      [] p = 4 -> PreguntaNumberAt(s, i, 0)
      [] p = 5 -> StandaloneNumberAt(s, i)
      [] p = 6 -> OneDotNumberAt(s, i)

\* the match attempt of pattern p at every position of s
MatchTable(p, s) == [i \in 1..Len(s) |-> PatternAt(p, s, i)]

\* the scan of re.findall over the attempts t: a match is taken where it is
\* found, and the scan goes on after it
RECURSIVE NonOverlapping(_, _)
NonOverlapping(t, i) ==
    IF i > Len(t) THEN <<>>
    ELSE IF t[i].end > 0 THEN <<t[i].groups>> \o NonOverlapping(t, t[i].end)
    ELSE NonOverlapping(t, i + 1)

\* re.findall: the groups of the non-overlapping matches, left to right
FindAll(p, s) == NonOverlapping(MatchTable(p, s), 1)

\* the leftmost match among the attempts t, or <<>> when there is none
Leftmost(t) ==
    IF \A i \in DOMAIN t : t[i].end = 0 THEN <<>>
    ELSE <<t[CHOOSE i \in DOMAIN t :
                 t[i].end > 0 /\ \A j \in 1..(i - 1) : t[j].end = 0].groups>>

\* re.search: the groups of the leftmost match, or <<>> when there is none
Search(p, s) == Leftmost(MatchTable(p, s))

(***************************************************************************)
(* Results of a call: a returned value or a raised exception               *)
(***************************************************************************)
Return(v) == [raised |-> FALSE, value |-> v]

Raise(e) == [raised |-> TRUE, value |-> e]

IndexError == <<"<IndexError>">>

None == <<"<None>">>

(***************************************************************************)
(* extract_question_from_text                                              *)
(***************************************************************************)
S_Pregunta_ == <<"P", "r", "e", "g", "u", "n", "t", "a", "_">>

S_Desconocida == <<"D", "e", "s", "c", "o", "n", "o", "c", "i", "d", "a">>

\* int(num) for a string of digits
DigitValue(c) ==
    CASE c \in {"0", "۰"} -> 0 [] c \in {"1", "۱"} -> 1
      [] c \in {"2", "۲"} -> 2 [] c \in {"3", "۳"} -> 3
      [] c \in {"4", "۴"} -> 4 [] c \in {"5", "۵"} -> 5
      [] c \in {"6", "۶"} -> 6 [] c \in {"7", "۷"} -> 7
      [] c \in {"8", "۸"} -> 8 [] c \in {"9", "۹"} -> 9

RECURSIVE IntOf(_)
IntOf(num) ==
    IF num = <<>> THEN 0
    ELSE 10 * IntOf(Take(num, Len(num) - 1)) + DigitValue(num[Len(num)])

\* line 125 for each pattern of the list: re.findall(pattern, text)
CascadeMatches(text) == [p \in 1..NumPatterns |-> FindAll(p, text)]

\* the first pattern of the list with a match, or 0
FirstPattern(found) ==
    IF \A p \in DOMAIN found : found[p] = <<>> THEN 0
    ELSE CHOOSE p \in DOMAIN found :
             found[p] # <<>> /\ \A q \in 1..(p - 1) : found[q] = <<>>

\* matches[0] and matches[-1] as Python sees them: findall gives a tuple of
\* strings per match for a pattern with two groups, and the bare string for
\* a pattern with one group
MatchItem(p, groups) == IF p \in {1, 3} THEN groups ELSE groups[1]

\* lines 126-131: the value returned for the matches of the first pattern
CascadeResult(p, matches) ==
    LET first == MatchItem(p, matches[1])
        last == MatchItem(p, matches[Len(matches)])
    IN  IF Len(first) = 2
        THEN IF Len(last) >= 2
             THEN Return(S_Pregunta_ \o
                         (IF p \in {1, 3} THEN last[2] ELSE <<last[2]>>))
             ELSE Raise(IndexError)
        ELSE Return(S_Pregunta_ \o last)

\* the first of two optional matches
OrElse(a, b) == IF a # <<>> THEN a ELSE b

\* lines 136-146 for one line: the match that makes the scan return
LineMatch(line) ==
    OrElse(IF Contains(line, S_Pregunta) THEN Search(2, line) ELSE <<>>,
           Search(6, line))

\* the first line with a match
FirstLineMatch(found) ==
    IF \A k \in DOMAIN found : found[k] = <<>> THEN <<>>
    ELSE <<found[CHOOSE k \in DOMAIN found :
               found[k] # <<>> /\ \A j \in 1..(k - 1) : found[j] = <<>>][1][1]>>

\* lines 134-146: the scan line by line
LineScan(lines) ==
    FirstLineMatch([k \in DOMAIN lines |-> LineMatch(Strip(lines[k]))])

MinQuestion == 1

MaxQuestion == 50

\* line 152: the numbers between 1 and 50
ValidNumbers(numbers) ==
    SelectSeq(numbers, LAMBDA n :
        MinQuestion <= IntOf(n[1]) /\ IntOf(n[1]) <= MaxQuestion)

\* lines 153-156: the last valid number, or the sentinel
LastOrUnknown(valid_numbers) ==
    IF valid_numbers # <<>>
    THEN S_Pregunta_ \o valid_numbers[Len(valid_numbers)][1]
    ELSE S_Pregunta_ \o S_Desconocida

\* lines 149-156: the last standalone number between 1 and 50
NumberFallback(text) == LastOrUnknown(ValidNumbers(FindAll(5, text)))

\* lines 134-156: what follows the cascade when no pattern matched
AfterCascade(text, scan) ==
    IF scan # <<>> THEN S_Pregunta_ \o scan[1] ELSE NumberFallback(text)

\* lines 124-131: the cascade over the matches found of each pattern
Cascade(text, found, p) ==
    IF p # 0 THEN CascadeResult(p, found[p])
    ELSE Return(AfterCascade(text, LineScan(SplitOn(text, "\n"))))

extract_question_from_text(text) ==
    Cascade(text, CascadeMatches(text), FirstPattern(CascadeMatches(text)))

(***************************************************************************)
(* is_scientific_content                                                   *)
(***************************************************************************)
scientific_keywords == <<
    <<"q", "u", "í", "m", "i", "c", "a">>, <<"f", "í", "s", "i", "c", "a">>, <<"b", "i", "o", "l", "o", "g", "í", "a">>, <<"f", "ó", "r", "m", "u", "l", "a">>, <<"e", "c", "u", "a", "c", "i", "ó", "n">>,
    <<"g", "r", "á", "f", "i", "c", "o">>, <<"t", "a", "b", "l", "a">>, <<"d", "i", "a", "g", "r", "a", "m", "a">>, <<"e", "l", "e", "m", "e", "n", "t", "o">>, <<"m", "o", "l", "é", "c", "u", "l", "a">>,
    <<"á", "t", "o", "m", "o">>, <<"r", "e", "a", "c", "c", "i", "ó", "n">>, <<"e", "x", "p", "e", "r", "i", "m", "e", "n", "t", "o">>, <<"l", "a", "b", "o", "r", "a", "t", "o", "r", "i", "o">>, <<"á", "c", "i", "d", "o">>,
    <<"b", "a", "s", "e">>, <<"p", "H">>, <<"t", "e", "m", "p", "e", "r", "a", "t", "u", "r", "a">>, <<"p", "r", "e", "s", "i", "ó", "n">>, <<"v", "o", "l", "u", "m", "e", "n">>, <<"m", "a", "s", "a">>,
    <<"v", "e", "l", "o", "c", "i", "d", "a", "d">>, <<"a", "c", "e", "l", "e", "r", "a", "c", "i", "ó", "n">>, <<"f", "u", "e", "r", "z", "a">>, <<"e", "n", "e", "r", "g", "í", "a">> >>

KeywordIn(keyword, text_lower) == Contains(text_lower, keyword)

is_scientific_content(surrounding_text) ==
    LET text_lower == LowerStr(surrounding_text)
    IN  \E k \in DOMAIN scientific_keywords :
            KeywordIn(scientific_keywords[k], text_lower)

(***************************************************************************)
(* ImageRenamer.parse_filename                                             *)
(***************************************************************************)
S_Cientifica == <<"C", "i", "e", "n", "t", "i", "f", "i", "c", "a">>

S_General == <<"G", "e", "n", "e", "r", "a", "l">>

S_Pag == <<"P", "a", "g">>

\* a literal followed by (\d+), letter case ignored
LitNumberAt(s, i, lit) ==
    LET d == DigitRun(s, i + Len(lit))
    IN  IF LitAtIgnoreCase(s, i, lit) /\ d > 0
        THEN [end |-> i + Len(lit) + d,
              groups |-> <<SubSeq(s, i + Len(lit), i + Len(lit) + d - 1)>>]
        ELSE NoMatch

\* (Cientifica), letter case ignored
CientificaAt(s, i) ==
    IF LitAtIgnoreCase(s, i, S_Cientifica)
    THEN [end |-> i + Len(S_Cientifica),
          groups |-> <<SubSeq(s, i, i + Len(S_Cientifica) - 1)>>]
    ELSE NoMatch

\* re.search over the match attempts t at every position: group 1 of the
\* leftmost match, or None
SearchFirst(t) ==
    IF \A i \in DOMAIN t : t[i].end = 0 THEN None
    ELSE t[CHOOSE i \in DOMAIN t :
               t[i].end > 0 /\ \A j \in 1..(i - 1) : t[j].end = 0].groups[1]

\* a variant of QuestionPatternAt that takes "Pregunta " as well
QuestionPatternAt_EitherToken(s, i) ==
    IF LitNumberAt(s, i, S_Pregunta_).end > 0
    THEN LitNumberAt(s, i, S_Pregunta_)
    ELSE LitNumberAt(s, i, S_Pregunta \o <<" ">>)

\* Pregunta_(\d+)
QuestionPatternAt(s, i) == LitNumberAt(s, i, S_Pregunta_)

PagePatternAt(s, i) == LitNumberAt(s, i, S_Pag)

parse_filename(filename) ==
    LET question_match ==
            SearchFirst([i \in DOMAIN filename |-> QuestionPatternAt(filename, i)])
        type_match ==
            SearchFirst([i \in DOMAIN filename |-> CientificaAt(filename, i)])
        page_match ==
            SearchFirst([i \in DOMAIN filename |-> PagePatternAt(filename, i)])
    IN  [question |-> question_match,
         type |-> IF type_match # None THEN Capitalize(type_match) ELSE None,
         page |-> page_match]
(***************************************************************************)
(* The texts of a page around an image, as the PDF library gives them:     *)
(* clipped to the rectangle around the image, clipped to the band above    *)
(* it, and of the whole page                                               *)
(***************************************************************************)
TextTabla ==
    [around |-> <<"1", ".", "2", "1", " ", "P", "r", "e", "g", "u", "n", "t", "a", " ", "2", "1">>, above |-> <<"T", "a", "b", "l", "a">>,
     full |-> <<"1", ".", "2", "1", " ", "P", "r", "e", "g", "u", "n", "t", "a", " ", "2", "1", "\n", "T", "a", "b", "l", "a", " ", "d", "e", " ", "m", "a", "s", "a">>]

TextFoto ==
    [around |-> <<>>, above |-> <<>>, full |-> <<"f", "o", "t", "o", " ", "d", "e", "c", "o", "r", "a", "t", "i", "v", "a">>]

TextDos ==
    [around |-> <<"P", "r", "e", "g", "u", "n", "t", "a", " ", "1", "2">>, above |-> <<>>,
     full |-> <<"P", "r", "e", "g", "u", "n", "t", "a", " ", "1", "2", "\n", "P", "r", "e", "g", "u", "n", "t", "a", " ", "3">>]

TextPh ==
    [around |-> <<"p", "H", " ", "7">>, above |-> <<"P", "r", "e", "g", "u", "n", "t", "a", " ", "5">>, full |-> <<"p", "H", " ", "7">>]

PageTexts == {TextTabla, TextFoto, TextDos, TextPh}

(***************************************************************************)
(* PDFImageExtractor: the extraction pipeline                              *)
(***************************************************************************)
\* str(n) for n >= 0
RECURSIVE DecStr(_)
DecStr(n) ==
    LET d == <<"0", "1", "2", "3", "4", "5", "6", "7", "8", "9">>[(n % 10) + 1]
    IN  IF n < 10 THEN <<d>> ELSE DecStr(n \div 10) \o <<d>>

\* a variant of Format03d that keeps the last three digits only
Format03d_Truncating(n) ==
    LET s == DecStr(n % 1000)
    IN  [i \in 1..(3 - Len(s)) |-> "0"] \o s

\* f"{n:03d}": zero padding up to the minimum width 3
Format03d(n) ==
    LET s == DecStr(n)
    IN  [i \in 1..(3 - Min(3, Len(s))) |-> "0"] \o s

MinImageSize == 50

ContextSnippetLen == 200

\* get_surrounding_text: the clipped text around the image, a newline, the
\* clipped text above it; and the text of the whole page
get_surrounding_text(page_text) ==
    [surrounding_text |-> page_text.around \o <<"\n">> \o page_text.above,
     full_page_text |-> page_text.full]

\* line 247: the name of the image file
ImageFilename(counter, banco, prefix, question_name, content_type, page, ext) ==
    Format03d(counter) \o <<"_">> \o banco \o <<"_">> \o prefix \o <<"_">>
        \o question_name \o <<"_">> \o content_type \o <<"_">> \o S_Pag
        \o DecStr(page) \o <<".">> \o ext

\* line 266: the context kept in the record
ContextSnippet(surrounding_text) ==
    IF Len(surrounding_text) > ContextSnippetLen
    THEN Take(surrounding_text, ContextSnippetLen) \o <<".", ".", ".">>
    ELSE surrounding_text

\* lines 242-267 for an image that passed the size filter and whose
\* question was identified: the file name and the record (tamano is the
\* key 'tamaño'; 'posicion', the rounded corner of the image rectangle, is
\* left out)
ImageInfo(counter, banco, prefix, pnum, img, question_name, content_type) ==
    LET ctx == get_surrounding_text(img.text)
    IN  [numero |-> counter,
         pagina |-> pnum + 1,
         archivo |-> ImageFilename(counter, banco, prefix, question_name,
                                   content_type, pnum + 1, img.ext),
         banco_preguntas |-> banco,
         prefijo_pdf |-> prefix,
         pregunta |-> question_name,
         tipo_contenido |-> content_type,
         tamano |-> DecStr(img.width) \o <<"x">> \o DecStr(img.height),
         formato |-> img.ext,
         texto_contexto |-> ContextSnippet(ctx.surrounding_text)]

\* line 222: the filter of small images
TooSmall(img) == img.width < MinImageSize \/ img.height < MinImageSize

\* lines 234-240: the question identified from the texts of a page
QuestionOfText(page_text) ==
    LET ctx == get_surrounding_text(page_text)
    IN  extract_question_from_text(
            ctx.surrounding_text \o <<"\n">> \o ctx.full_page_text)

\* lines 243-244: the category decided from the texts of a page
ContentTypeOfText(page_text) ==
    LET ctx == get_surrounding_text(page_text)
    IN  IF is_scientific_content(ctx.surrounding_text \o ctx.full_page_text)
        THEN S_Cientifica ELSE S_General

\* both, computed once for each of the page texts
QuestionTable == [t \in PageTexts |-> QuestionOfText(t)]

ContentTypeTable == [t \in PageTexts |-> ContentTypeOfText(t)]

QuestionOf(img) == QuestionTable[img.text]

ContentTypeOf(img) == ContentTypeTable[img.text]

\* a variant of generate_report that reports on the scientific images only
generate_report_OnlyScientific(images) ==
    [total |-> Len(images),
     cientificas |->
         Len(SelectSeq(images, LAMBDA r : r.tipo_contenido = S_Cientifica)),
     generales |->
         Len(SelectSeq(images, LAMBDA r : r.tipo_contenido = S_General)),
     formatos |->
         [f \in {images[i].formato : i \in DOMAIN images} |->
             Len(SelectSeq(images, LAMBDA r :
                 r.formato = f /\ r.tipo_contenido = S_Cientifica))],
     paginas |->
         [p \in {images[i].pagina : i \in DOMAIN images} |->
             Len(SelectSeq(images, LAMBDA r :
                 r.pagina = p /\ r.tipo_contenido = S_Cientifica))],
     detalle |->
         [i \in DOMAIN SelectSeq(images,
                                 LAMBDA r : r.tipo_contenido = S_Cientifica) |->
             [numero |-> images[i].numero, secuencia |-> i,
              archivo |-> images[i].archivo]]]

\* generate_report: the counts and the detail blocks of the report file
generate_report(images) ==
    [total |-> Len(images),
     cientificas |->
         Len(SelectSeq(images, LAMBDA r : r.tipo_contenido = S_Cientifica)),
     generales |->
         Len(SelectSeq(images, LAMBDA r : r.tipo_contenido = S_General)),
     formatos |->
         [f \in {images[i].formato : i \in DOMAIN images} |->
             Len(SelectSeq(images, LAMBDA r : r.formato = f))],
     paginas |->
         [p \in {images[i].pagina : i \in DOMAIN images} |->
             Len(SelectSeq(images, LAMBDA r : r.pagina = p))],
     detalle |->
         [i \in DOMAIN images |->
             [numero |-> images[i].numero, secuencia |-> i,
              archivo |-> images[i].archivo]]]

\* a variant of OpenPdf that ignores the result of open_pdf and goes on
OpenPdf_IgnoresFailure(pdfs) ==
    /\ pc = "start"
    /\ fn = "extract_all_images"
    /\ \E pdf \in pdfs :
        /\ doc' = [open |-> pdf.opens, pages |-> pdf.pages]
        /\ npages' = Len(pdf.pages)
        /\ page_num' = 0
        /\ all_extracted_images' = <<>>
        /\ pc' = "doc_loop"
        /\ UNCHANGED result
    /\ UNCHANGED <<banco_preguntas, pdf_prefix, nimgs, img_index,
                   image_counter, extracted_images, files, partial, report,
                   log, fn, arg, ret>>

\* open_pdf and the head of extract_all_images: fitz.open either raises,
\* and extract_all_images returns [], or gives the document, here the number
\* of image references of each of its pages
OpenPdf(pdfs) ==
    /\ pc = "start"
    /\ fn = "extract_all_images"
    /\ \E pdf \in pdfs :
        IF pdf.opens
        THEN /\ doc' = [open |-> TRUE, pages |-> pdf.pages]
             /\ npages' = Len(pdf.pages)
             /\ page_num' = 0
             /\ all_extracted_images' = <<>>
             /\ pc' = "doc_loop"
             /\ UNCHANGED result
        ELSE /\ result' = <<>>
             /\ pc' = "returned"
             /\ UNCHANGED <<doc, npages, page_num, all_extracted_images>>
    /\ UNCHANGED <<banco_preguntas, pdf_prefix, nimgs, img_index,
                   image_counter, extracted_images, files, partial, report,
                   log, fn, arg, ret>>

\* lines 206-209: extract_images_from_page starts on page page_num
BeginPage ==
    /\ pc = "doc_loop"
    /\ page_num < npages
    /\ nimgs' = doc.pages[page_num + 1]
    /\ img_index' = 0
    /\ extracted_images' = <<>>
    /\ pc' = "img_loop"
    /\ UNCHANGED <<doc, banco_preguntas, pdf_prefix, npages, page_num,
                   image_counter, all_extracted_images, files, partial,
                   report, log, result, fn, arg, ret>>

\* the lines printed for an image: line 223 (skipped as too small), line 270
\* (extracted) and line 275 (an exception was caught)
LogSkipped(pnum, index) ==
    [kind |-> "omitida", pagina |-> pnum + 1, imagen |-> index + 1]

LogExtracted(info) ==
    [kind |-> "extraida", numero |-> info.numero, archivo |-> info.archivo]

LogError(pnum, index) ==
    [kind |-> "error", pagina |-> pnum + 1, imagen |-> index + 1]

\* what one pass of the loop over the images reads and writes
PassState ==
    [image_counter |-> image_counter,
     extracted_images |-> extracted_images,
     files |-> files,
     partial |-> partial,
     log |-> log]

\* line 223-224: the image is skipped
Skipped(st, pnum, index) ==
    [st EXCEPT !.log = Append(@, LogSkipped(pnum, index))]

\* lines 274-275: the exception is caught and printed
Failed(st, pnum, index) ==
    [st EXCEPT !.log = Append(@, LogError(pnum, index))]

\* lines 250-272: the file is written, the record kept, the counter moved;
\* an exception of write leaves the file it had created
Store(st, img, info, pnum, index) ==
    IF img.err = "write"
    THEN [st EXCEPT !.partial = @ \cup {info.archivo},
                    !.files = @ \ {info.archivo},
                    !.log = Append(@, LogError(pnum, index))]
    ELSE [st EXCEPT !.files = @ \cup {info.archivo},
                    !.partial = @ \ {info.archivo},
                    !.extracted_images = Append(@, info),
                    !.log = Append(@, LogExtracted(info)),
                    !.image_counter = @ + 1]

\* a variant of Identify in which an image that is filtered out takes a number
Identify_SkipTakesNumber(st, img, q, pnum, index) ==
    IF img.err = "extract"
    THEN Failed(st, pnum, index)
    ELSE IF TooSmall(img)
    THEN [Skipped(st, pnum, index) EXCEPT !.image_counter = @ + 1]
    ELSE IF q.raised \/ img.err = "open"
    THEN Failed(st, pnum, index)
    ELSE Store(st, img,
               ImageInfo(st.image_counter, banco_preguntas, pdf_prefix, pnum,
                         img, q.value, ContentTypeOf(img)),
               pnum, index)

\* lines 212-275 for the image img whose question is q: an exception or
\* the size filter ends the pass with nothing but a printed line
Identify(st, img, q, pnum, index) ==
    IF img.err = "extract"
    THEN Failed(st, pnum, index)
    ELSE IF TooSmall(img)
    THEN Skipped(st, pnum, index)
    ELSE IF q.raised \/ img.err = "open"
    THEN Failed(st, pnum, index)
    ELSE Store(st, img,
               ImageInfo(st.image_counter, banco_preguntas, pdf_prefix, pnum,
                         img, q.value, ContentTypeOf(img)),
               pnum, index)

\* the pass over one image leaves st
Advance(st) ==
    /\ image_counter' = st.image_counter
    /\ extracted_images' = st.extracted_images
    /\ files' = st.files
    /\ partial' = st.partial
    /\ log' = st.log

\* the last line printed is that of a caught exception
EndsInError(st) == st.log[Len(st.log)].kind = "error"

\* a variant of ProcessImage in which a caught exception ends the loop over
\* the images of the page
ProcessImage_ErrorEndsPage(imgs) ==
    /\ pc = "img_loop"
    /\ img_index < nimgs
    /\ \E img \in imgs :
        /\ Advance(Identify(PassState, img, QuestionOf(img), page_num,
                            img_index))
        /\ img_index' =
               IF EndsInError(Identify(PassState, img, QuestionOf(img),
                                       page_num, img_index))
               THEN nimgs ELSE img_index + 1
    /\ UNCHANGED <<pc, doc, banco_preguntas, pdf_prefix, npages, page_num,
                   nimgs, all_extracted_images, report, result, fn, arg, ret>>

\* lines 211-275: one pass of the loop over the images of the page.  img is
\* what the PDF library and the file system give for this image: its size
\* and format, the texts around it, and where (if anywhere) an exception is
\* raised: "extract" in doc.extract_image, "open" in open(filepath),
\* "write" in image_file.write after the file was created
ProcessImage(imgs) ==
    /\ pc = "img_loop"
    /\ img_index < nimgs
    /\ \E img \in imgs :
        Advance(Identify(PassState, img, QuestionOf(img), page_num,
                         img_index))
    /\ img_index' = img_index + 1
    /\ UNCHANGED <<pc, doc, banco_preguntas, pdf_prefix, npages, page_num,
                   nimgs, all_extracted_images, report, result, fn, arg, ret>>

\* lines 277 and 290-291: the page is done, its records join the result
EndPage ==
    /\ pc = "img_loop"
    /\ img_index = nimgs
    /\ all_extracted_images' = all_extracted_images \o extracted_images
    /\ page_num' = page_num + 1
    /\ pc' = "doc_loop"
    /\ UNCHANGED <<doc, banco_preguntas, pdf_prefix, npages, nimgs, img_index,
                   image_counter, extracted_images, files, partial, report,
                   log, result, fn, arg, ret>>

\* the passes over the images imgs[lo..hi] of page pnum, in order.  The
\* range is halved, and what the passes before lo have left is evaluated
\* before the range is entered, which keeps the evaluation shallow on a
\* page of thousands of images
RECURSIVE PassImages(_, _, _, _, _)
PassImages(st, imgs, pnum, lo, hi) ==
    IF lo > hi \/ st.image_counter < 1
    THEN st
    ELSE IF lo = hi
    THEN Identify(st, imgs[lo], QuestionOf(imgs[lo]), pnum, lo - 1)
    ELSE PassImages(PassImages(st, imgs, pnum, lo, (lo + hi) \div 2),
                    imgs, pnum, ((lo + hi) \div 2) + 1, hi)

\* the page is done and left st
PageDone(st) ==
    /\ Advance(st)
    /\ all_extracted_images' = all_extracted_images \o st.extracted_images

\* lines 288-291 with the whole of extract_images_from_page: BeginPage, a
\* pass over every image of the page and EndPage, as one step.  pages[n] is
\* the set of the image lists a page of n image references can have
ExtractImagesFromPage(pages) ==
    /\ pc = "doc_loop"
    /\ page_num < npages
    /\ \E imgs \in pages[doc.pages[page_num + 1]] :
        PageDone(PassImages([PassState EXCEPT !.extracted_images = <<>>],
                            imgs, page_num, 1, Len(imgs)))
    /\ nimgs' = doc.pages[page_num + 1]
    /\ img_index' = doc.pages[page_num + 1]
    /\ page_num' = page_num + 1
    /\ UNCHANGED <<pc, doc, banco_preguntas, pdf_prefix, npages, report,
                   result, fn, arg, ret>>

\* lines 293-298: after the last page the report is written and the records
\* are returned
Finish ==
    /\ pc = "doc_loop"
    /\ page_num = npages
    /\ report' = <<generate_report(all_extracted_images)>>
    /\ result' = all_extracted_images
    /\ pc' = "returned"
    /\ UNCHANGED <<doc, banco_preguntas, pdf_prefix, npages, page_num, nimgs,
                   img_index, image_counter, extracted_images,
                   all_extracted_images, files, partial, log, fn, arg, ret>>

(***************************************************************************)
(* get_surrounding_text: the two regions of the page whose text is read.   *)
(* A rectangle is [x0, y0, x1, y1], y growing downwards; the page is its   *)
(* width and height                                                        *)
(***************************************************************************)
Rect(x0, y0, x1, y1) == [x0 |-> x0, y0 |-> y0, x1 |-> x1, y1 |-> y1]

\* a variant of above_image_rect that starts at the top of the page
above_image_rect_FromTop(page, image_rect, context_margin) ==
    Rect(0, 0, page.width, image_rect.y0)

\* lines 164-169: the image rectangle grown by the margin, three times the
\* margin upwards
search_rect(page, image_rect, context_margin) ==
    Rect(Max(0, image_rect.x0 - context_margin),
         Max(0, image_rect.y0 - context_margin * 3),
         Min(page.width, image_rect.x1 + context_margin),
         Min(page.height, image_rect.y1 + context_margin))

\* lines 178-183: the band over the image
above_image_rect(page, image_rect, context_margin) ==
    Rect(0,
         Max(0, image_rect.y0 - context_margin * 2),
         page.width,
         image_rect.y0)

\* lines 164-185: the clip rectangles of the two page.get_text calls
get_surrounding_regions(page, image_rect, context_margin) ==
    [search_rect |-> search_rect(page, image_rect, context_margin),
     above_image_rect |-> above_image_rect(page, image_rect, context_margin)]
(***************************************************************************)
(* Inputs                                                                  *)
(***************************************************************************)
\* the strings made of at most n pieces of a set of pieces
Concats(pieces, n) ==
    UNION {{Join(f) : f \in [1..k -> pieces]} : k \in 0..n}

RECURSIVE Sum(_)
Sum(s) == IF s = <<>> THEN 0 ELSE Head(s) + Sum(Tail(s))

MaxPages == 2

MaxImages == 4

MaxNamePieces == 3

MaxTextPieces == 4

MaxFilenamePieces == 3

LongImages == 2004

\* documents: the number of image references of each page
Shapes ==
    {s \in UNION {[1..n -> 0..MaxImages] : n \in 0..MaxPages} :
        Sum(s) <= MaxImages}

Pdfs ==
    {[opens |-> FALSE, pages |-> <<>>]}
        \cup {[opens |-> TRUE, pages |-> s] : s \in Shapes}

Image(w, h, ext, err, text) ==
    [width |-> w, height |-> h, ext |-> ext, err |-> err, text |-> text]

S_png == <<"p", "n", "g">>

S_jpeg == <<"j", "p", "e", "g">>

Images ==
    {Image(200, 150, S_png, "none", TextTabla),
     Image(50, 50, S_jpeg, "none", TextFoto),
     Image(49, 200, S_png, "none", TextTabla),
     Image(200, 49, S_jpeg, "none", TextFoto),
     Image(200, 150, S_png, "extract", TextTabla),
     Image(200, 150, S_png, "open", TextTabla),
     Image(300, 300, S_jpeg, "write", TextPh),
     Image(200, 150, S_png, "none", TextDos)}

\* a long document: its images repeat a fixed cycle
LongCycle ==
    <<Image(200, 150, S_png, "none", TextTabla),
      Image(49, 200, S_png, "none", TextTabla),
      Image(300, 300, S_jpeg, "none", TextFoto),
      Image(200, 150, S_png, "extract", TextTabla)>>

LongPdfs == {[opens |-> TRUE, pages |-> <<LongImages, n>>] : n \in 0..2}

\* the images of a page of n image references: the cycle for the long page,
\* any images for a short one
LongPages ==
    [n \in {pdf.pages[p] : pdf \in LongPdfs, p \in 1..2} |->
        IF n = LongImages
        THEN {[i \in 1..n |-> LongCycle[((i - 1) % Len(LongCycle)) + 1]]}
        ELSE [1..n -> Images]]

\* the arguments of the constructor
CtorArgs ==
    {[pdf_path |-> <<"d", "o", "c", "s", "/", "L", "e", "c", "t", "u", "r", "a", " ", "C", "r", "i", "t", "i", "c", "a", ".", "p", "d", "f">>, banco |-> S_BancoPreguntas],
     [pdf_path |-> <<"x", ".", "p", "d", "f">>, banco |-> <<"i", "c", "f", "e", "s", " ", "1", "1">>]}

NamePieces ==
    {<<"L", "e", "c", "t", "u", "r", "a", " ">>, <<"C", "R", "I", "T", "I", "C", "A", "_">>, <<"c", "a", "m", "i", "l", "o", "-", "i", "s", "a", "z", "a", " ">>, <<"d", "e", " ">>, <<"s", "e", "s", "i", "ó", "n", "!", "1", "1">>,
     <<"/">>, <<".", "p", "d", "f">>, <<" ", "-", "_", " ">>, <<"g", "u", "t", "i", "e", "r", "r", "e", "z", "g", "u", "t", "i", "e", "r", "r", "e", "z", "g", "u", "t", "i", "e", "r", "r", "e", "z">>,
     <<"a", "b", "_", "c", "d", " ", "e", "f", "-", "g", "h", " ", "i", "j", " ", "k", "l", " ">>, <<"ß", "u", " ", "Ç", "Ü", "\f", "º">>,
     <<"a", "Σ", " ", "և", "ω", "۵", "₀", "ǆ">>}

TextPieces ==
    {<<"1", ".", "2", " ">>, <<"P", "r", "e", "g", "u", "n", "t", "a", " ", "3">>, <<"P", "r", "e", "g", "u", "n", "t", "a", " ", "2", "1">>, <<"p", "r", "e", "g", "u", "n", "t", "a", " ", "4", "5">>, <<"P", "r", "e", "g", "u", "n", "t", "a">>,
     <<" ">>, <<"\n">>, <<"7">>, <<"6", "0">>, <<"x">>, <<"P", "r", "e", "g", "u", "n", "t", "a", " ", "۵">>, <<"۷">>}

FilenamePieces ==
    {<<"P", "r", "e", "g", "u", "n", "t", "a", "_", "2", "1">>, <<"P", "r", "e", "g", "u", "n", "t", "a", " ", "7">>, <<"p", "r", "e", "g", "u", "n", "t", "a", "_">>, <<"_">>, <<"C", "I", "E", "N", "T", "I", "F", "I", "C", "A">>,
     <<"C", "i", "e", "n", "t", "i", "f", "i", "c", "a">>, <<"G", "e", "n", "e", "r", "a", "l">>, <<"P", "a", "g", "2">>, <<"p", "a", "g">>, <<"1", "0">>, <<"x">>, <<"P", "a", "g", "۵">>}

\* the file names of the examples
FilenameExamples ==
    {<<"P", "r", "e", "g", "u", "n", "t", "a", "_", "2", "1", "_", "C", "i", "e", "n", "t", "i", "f", "i", "c", "a", "_", "P", "a", "g", "2">>, <<"r", "a", "n", "d", "o", "m", "_", "f", "i", "l", "e">>,
     <<"0", "0", "1", "_", "I", "c", "f", "e", "s", "_", "L", "e", "c", "t", "u", "r", "a", "C", "r", "i", "t", "i", "c", "a", "_", "P", "r", "e", "g", "u", "n", "t", "a", "_", "2", "1", "_", "C", "i", "e", "n", "t", "i", "f", "i", "c", "a", "_", "P", "a", "g", "2", ".", "p", "n", "g">>}

\* a keyword in capital letters (no keyword holds a 'ß', whose capitals
\* are not its title case)
UpperStr(s) == Join([i \in DOMAIN s |-> ToTitle(s[i])])

ClassifyInputs ==
    {pre \o k \o post :
        pre \in {<<>>, <<"l", "a", " ">>, <<"Ü", " ">>, <<"a", "Σ", " ">>},
        k \in UNION {{scientific_keywords[i], UpperStr(scientific_keywords[i]),
                      Capitalize(scientific_keywords[i])} :
                         i \in DOMAIN scientific_keywords}
              \cup {<<"f", "o", "t", "o", " ", "d", "e", "c", "o", "r", "a", "t", "i", "v", "a">>, <<>>, <<"p", "h">>, <<"b", "a", "s", " ", "e">>},
        post \in {<<>>, <<" ", "7">>, <<"s">>}}

(***************************************************************************)
(* Specifications                                                          *)
(***************************************************************************)
PipeIdle ==
    /\ doc = [open |-> FALSE, pages |-> <<>>]
    /\ npages = 0
    /\ page_num = 0
    /\ nimgs = 0
    /\ img_index = 0
    /\ image_counter = 1
    /\ extracted_images = <<>>
    /\ all_extracted_images = <<>>
    /\ files = {}
    /\ partial = {}
    /\ report = <<>>
    /\ log = <<>>
    /\ result = <<>>

\* the state after PDFImageExtractor.__init__
Init ==
    /\ pc = "start"
    /\ fn = "extract_all_images"
    /\ arg \in CtorArgs
    /\ ret = Return(<<>>)
    /\ banco_preguntas = clean_banco_name(arg.banco)
    /\ pdf_prefix = extract_pdf_prefix(arg.pdf_path)
    /\ PipeIdle

Next ==
    \/ OpenPdf(Pdfs)
    \/ BeginPage
    \/ ProcessImage(Images)
    \/ EndPage
    \/ Finish

Spec == Init /\ [][Next]_vars

NextLong ==
    \/ OpenPdf(LongPdfs)
    \/ ExtractImagesFromPage(LongPages)
    \/ Finish

SpecLong == Init /\ [][NextLong]_vars

\* a run that applies one function to one argument
InitCall(fns, inputs) ==
    /\ pc = "call"
    /\ fn \in fns
    /\ arg \in inputs
    /\ ret = Return(<<>>)
    /\ banco_preguntas = S_BancoPreguntas
    /\ pdf_prefix = S_PDF
    /\ PipeIdle

Call(f, r) ==
    /\ pc = "call"
    /\ fn = f
    /\ ret' = r
    /\ pc' = "done"
    /\ UNCHANGED <<fn, arg>>
    /\ UNCHANGED pipeVars

CallCleanBancoName == Call("clean_banco_name", Return(clean_banco_name(arg)))

CallExtractPdfPrefix ==
    Call("extract_pdf_prefix", Return(extract_pdf_prefix(arg)))

CallExtractFolderPrefix ==
    Call("extract_folder_prefix", Return(extract_folder_prefix(arg)))

CallParseFilename == Call("parse_filename", Return(parse_filename(arg)))

CallExtractQuestion ==
    Call("extract_question_from_text", extract_question_from_text(arg))

CallIsScientific ==
    Call("is_scientific_content", Return(is_scientific_content(arg)))

InitSanitize ==
    InitCall({"clean_banco_name", "extract_pdf_prefix", "extract_folder_prefix"},
             Concats(NamePieces, MaxNamePieces))

NextSanitize ==
    \/ CallCleanBancoName
    \/ CallExtractPdfPrefix
    \/ CallExtractFolderPrefix

SpecSanitize == InitSanitize /\ [][NextSanitize]_vars

InitParse ==
    InitCall({"parse_filename"},
             Concats(FilenamePieces, MaxFilenamePieces) \cup FilenameExamples)

NextParse == CallParseFilename

SpecParse == InitParse /\ [][NextParse]_vars

InitQuestion ==
    InitCall({"extract_question_from_text"}, Concats(TextPieces, MaxTextPieces))

NextQuestion == CallExtractQuestion

SpecQuestion == InitQuestion /\ [][NextQuestion]_vars

InitClassify == InitCall({"is_scientific_content"}, ClassifyInputs)

NextClassify == CallIsScientific

SpecClassify == InitClassify /\ [][NextClassify]_vars


(***************************************************************************)
(* get_surrounding_text on its own                                         *)
(***************************************************************************)
MaxMargin == 3

PageWidth == 6

PageHeight == 9

\* image rectangles on the page, the default rectangle of line 230 scaled
\* to the page among them
ImageRects ==
    {Rect(x0, y0, x1, y1) :
        x0 \in {0, 2, 5}, x1 \in {1, 4, 6}, y0 \in {0, 3, 7}, y1 \in {1, 5, 9}}

RegionInputs ==
    {[page |-> [width |-> PageWidth, height |-> PageHeight],
      image_rect |-> r, context_margin |-> m] :
        r \in {q \in ImageRects : q.x0 < q.x1 /\ q.y0 < q.y1},
        m \in 0..MaxMargin}

CallGetSurroundingText ==
    Call("get_surrounding_text",
         Return(get_surrounding_regions(arg.page, arg.image_rect,
                                        arg.context_margin)))

InitRegions == InitCall({"get_surrounding_text"}, RegionInputs)

NextRegions == CallGetSurroundingText

SpecRegions == InitRegions /\ [][NextRegions]_vars

(***************************************************************************)
(* extraer_imagenes_pdf, run twice on one document.  The document is      *)
(* fixed by the argument: whether it opens, the number of image           *)
(* references of each page and, in page order, what the PDF library and   *)
(* the file system give for each image                                    *)
(***************************************************************************)
TwiceImages == 2

TwiceDocuments ==
    {[opens |-> FALSE, pages |-> <<>>, images |-> <<>>]}
        \cup UNION {{[opens |-> TRUE, pages |-> s, images |-> l] :
                        l \in [1..Sum(s) -> Images]} :
                            s \in {t \in Shapes : Sum(t) <= TwiceImages}}

\* extraer_imagenes_pdf takes the path of the PDF and leaves the bank label
\* to its default
TwiceArgs ==
    {[pdf_path |-> a.pdf_path, banco |-> S_BancoPreguntas, document |-> d] :
        a \in CtorArgs, d \in TwiceDocuments}

\* the document of the run, as open_pdf finds it
TheDocument == [opens |-> arg.document.opens, pages |-> arg.document.pages]

\* the image of the document that the loop over the images is at
CurrentImage ==
    arg.document.images[Sum(SubSeq(doc.pages, 1, page_num)) + img_index + 1]

\* what a finished run leaves: the list returned and the output folder
RunOutcome ==
    [images |-> result, files |-> files, partial |-> partial,
     report |-> report]

\* a variant of SecondRun that runs extract_all_images again on the
\* extractor of the first run
SecondRun_SameExtractor ==
    /\ pc = "returned"
    /\ ret = Return(<<>>)
    /\ ret' = Return(<<RunOutcome>>)
    /\ pc' = "start"
    /\ doc' = [open |-> FALSE, pages |-> <<>>]
    /\ npages' = 0
    /\ page_num' = 0
    /\ nimgs' = 0
    /\ img_index' = 0
    /\ extracted_images' = <<>>
    /\ all_extracted_images' = <<>>
    /\ files' = {}
    /\ partial' = {}
    /\ report' = <<>>
    /\ log' = <<>>
    /\ result' = <<>>
    /\ UNCHANGED <<image_counter, banco_preguntas, pdf_prefix, fn, arg>>

\* lines 399-415 a second time: the first call has returned its list; the
\* second call constructs a new PDFImageExtractor (lines 8-31) for the same
\* path and an empty output folder
SecondRun ==
    /\ pc = "returned"
    /\ ret = Return(<<>>)
    /\ ret' = Return(<<RunOutcome>>)
    /\ pc' = "start"
    /\ doc' = [open |-> FALSE, pages |-> <<>>]
    /\ npages' = 0
    /\ page_num' = 0
    /\ nimgs' = 0
    /\ img_index' = 0
    /\ image_counter' = 1
    /\ extracted_images' = <<>>
    /\ all_extracted_images' = <<>>
    /\ files' = {}
    /\ partial' = {}
    /\ report' = <<>>
    /\ log' = <<>>
    /\ result' = <<>>
    /\ banco_preguntas' = clean_banco_name(arg.banco)
    /\ pdf_prefix' = extract_pdf_prefix(arg.pdf_path)
    /\ UNCHANGED <<fn, arg>>

InitTwice ==
    /\ pc = "start"
    /\ fn = "extract_all_images"
    /\ arg \in TwiceArgs
    /\ ret = Return(<<>>)
    /\ banco_preguntas = clean_banco_name(arg.banco)
    /\ pdf_prefix = extract_pdf_prefix(arg.pdf_path)
    /\ PipeIdle

NextTwice ==
    \/ OpenPdf({TheDocument})
    \/ BeginPage
    \/ ProcessImage({CurrentImage})
    \/ EndPage
    \/ Finish
    \/ SecondRun

SpecTwice == InitTwice /\ [][NextTwice]_vars

(***************************************************************************)
(* ImageRenamer.rename_files.  The folder is a function from the names of *)
(* its files to their contents; the content of a file is written as the   *)
(* name the file had when rename_files was called                         *)
(***************************************************************************)
\* old_filename.endswith(suffix)
EndsWith(s, suffix) ==
    Len(s) >= Len(suffix) /\ Drop(s, Len(s) - Len(suffix)) = suffix

\* ext.lstrip('.')
RECURSIVE LStripDots(_)
LStripDots(s) ==
    IF s # <<>> /\ Head(s) = "." THEN LStripDots(Tail(s)) ELSE s

\* lines 113-114: the extension of the file, without its dot, in lower case
Extension(old_filename) ==
    LowerStr(LStripDots(Drop(old_filename, Len(SplitextRoot(old_filename)))))

\* "_".join(parts)
RECURSIVE JoinUnderscore(_)
JoinUnderscore(parts) ==
    IF parts = <<>> THEN <<>>
    ELSE IF Len(parts) = 1 THEN parts[1]
    ELSE parts[1] \o <<"_">> \o JoinUnderscore(Tail(parts))

\* lines 117-131: the new name of the file, from the counter, the prefix of
\* the folder and what parse_filename finds in the old name
NewFilename(image_counter_, folder_prefix, old_filename, parsed_data) ==
    JoinUnderscore(
        <<Format03d(image_counter_), folder_prefix>>
            \o (IF parsed_data.question # None
                THEN <<S_Pregunta_ \o parsed_data.question>> ELSE <<>>)
            \o (IF parsed_data.type # None
                THEN <<parsed_data.type>> ELSE <<>>)
            \o (IF parsed_data.page # None
                THEN <<S_Pag \o parsed_data.page>> ELSE <<>>))
        \o <<".">> \o Extension(old_filename)

\* line 137: os.rename(old, new) raises when old is not there and, on
\* Windows, when new is the name of another file; elsewhere it replaces
\* that file
RenameRaises(folder, platform, old, new) ==
    \/ old \notin DOMAIN folder
    \/ platform = "nt" /\ new \in DOMAIN folder /\ new # old

\* line 137: the folder after os.rename(old, new) has returned
Renamed(folder, old, new) ==
    [n \in (DOMAIN folder \ {old}) \cup {new} |->
        IF n = new THEN folder[old] ELSE folder[n]]

\* lines 106-144: one pass of the loop over the files
RenameOne(st, folder_prefix, platform, old_filename, new_filename) ==
    IF EndsWith(old_filename, <<".", "p", "y">>)
    THEN st
    ELSE IF RenameRaises(st.folder, platform, old_filename, new_filename)
    THEN [st EXCEPT !.log = Append(@, [kind |-> "error",
                                       old |-> old_filename])]
    ELSE [st EXCEPT !.folder = Renamed(@, old_filename, new_filename),
                    !.image_counter = @ + 1,
                    !.renamed_count = @ + 1,
                    !.log = Append(@, [kind |-> "renombrado",
                                       old |-> old_filename,
                                       new |-> new_filename])]

\* lines 106-144: the loop over files_to_rename
RECURSIVE RenameLoop(_, _, _, _)
RenameLoop(st, folder_prefix, platform, files_to_rename) ==
    IF files_to_rename = <<>> THEN st
    ELSE RenameLoop(
             RenameOne(st, folder_prefix, platform, Head(files_to_rename),
                       NewFilename(st.image_counter, folder_prefix,
                                   Head(files_to_rename),
                                   parse_filename(
                                       SplitextRoot(Head(files_to_rename))))),
             folder_prefix, platform, Tail(files_to_rename))

\* lines 6-23 and 93-147: a new ImageRenamer on the folder and its
\* rename_files.  listing is get_file_info(): the names of the files of the
\* folder, oldest first
rename_files(input_folder, listing, platform) ==
    RenameLoop([folder |-> [n \in Range(listing) |-> n],
                image_counter |-> 1,
                renamed_count |-> 0,
                log |-> <<>>],
               extract_folder_prefix(input_folder), platform, listing)

MaxFiles == 3

\* the folder, by an absolute path, which os.path.abspath (line 13) leaves
\* as it is
RenameFolder == <<"/", "d", "a", "t", "a", "/", "M", "i", "s", " ", "F", "o", "t", "o", "s">>

\* names a folder can hold: fresh images, a script, a file without
\* extension, and names of the form rename_files gives
FileNames ==
    {<<"a", ".", "p", "n", "g">>, <<"b", ".", "J", "P", "G">>, <<"0", "0", "1", "_", "M", "i", "s", "F", "o", "t", "o", "s", ".", "p", "n", "g">>, <<"0", "0", "2", "_", "M", "i", "s", "F", "o", "t", "o", "s", ".", "p", "n", "g">>,
     <<"0", "0", "2", "_", "M", "i", "s", "F", "o", "t", "o", "s", ".", "j", "p", "g">>, <<"P", "r", "e", "g", "u", "n", "t", "a", "_", "2", "1", "_", "C", "i", "e", "n", "t", "i", "f", "i", "c", "a", "_", "P", "a", "g", "2", ".", "p", "n", "g">>,
     <<"0", "0", "1", "_", "M", "i", "s", "F", "o", "t", "o", "s", "_", "P", "r", "e", "g", "u", "n", "t", "a", "_", "2", "1", "_", "C", "i", "e", "n", "t", "i", "f", "i", "c", "a", "_", "P", "a", "g", "2", ".", "p", "n", "g">>, <<"r", "e", "n", "o", "m", "b", "r", "a", "r", ".", "p", "y">>,
     <<"n", "o", "t", "a", "s">>}

\* the listings of a folder: its names, each once, in the order of creation
Listings ==
    UNION {{l \in [1..k -> FileNames] :
               \A i, j \in 1..k : l[i] = l[j] => i = j} : k \in 0..MaxFiles}

\* a folder, its listing and the platform the renamer runs on (os.name)
RenameInputs ==
    {[input_folder |-> RenameFolder, listing |-> l, platform |-> p] :
        l \in Listings, p \in {"posix", "nt"}}

CallRenameFiles ==
    Call("rename_files",
         Return(rename_files(arg.input_folder, arg.listing, arg.platform)))

InitRename == InitCall({"rename_files"}, RenameInputs)

NextRename == CallRenameFiles

SpecRename == InitRename /\ [][NextRename]_vars

(***************************************************************************)
(* parse_filename on the names of the files that the extractor writes     *)
(***************************************************************************)
\* bank labels and paths of PDFs given to the constructor
RoundTripLabels ==
    {S_BancoPreguntas, <<"i", "c", "f", "e", "s", " ", "1", "1">>, <<"C", "i", "e", "n", "t", "i", "f", "i", "c", "a">>, <<"b", "a", "n", "c", "o", " ", "P", "r", "e", "g", "u", "n", "t", "a", "_", "9">>,
     <<"p", "a", "g", " ", "3">>}

RoundTripPaths ==
    {<<"x", ".", "p", "d", "f">>, <<"d", "o", "c", "s", "/", "L", "e", "c", "t", "u", "r", "a", " ", "C", "r", "i", "t", "i", "c", "a", ".", "p", "d", "f">>, <<"P", "a", "g", "1", "2", ".", "p", "d", "f">>,
     <<"c", "i", "e", "n", "t", "i", "f", "i", "c", "a", ".", "p", "d", "f">>}

\* the records that extract_images_from_page makes of the images it writes
EmittedRecords ==
    {ImageInfo(c, clean_banco_name(b), extract_pdf_prefix(p), n, img,
               QuestionOf(img).value, ContentTypeOf(img)) :
        c \in 1..MaxImages, b \in RoundTripLabels, p \in RoundTripPaths,
        n \in 0..(MaxPages - 1),
        img \in {i \in {Image(200, 150, S_png, "none", t) : t \in PageTexts} :
                    ~QuestionOf(i).raised}}

\* lines 113-117 of nombres_prefijos.py: parse_filename is given the name
\* of the file without its extension
CallParseEmitted ==
    Call("parse_filename",
         Return(parse_filename(SplitextRoot(arg.archivo))))

InitRoundTrip == InitCall({"parse_filename"}, EmittedRecords)

NextRoundTrip == CallParseEmitted

SpecRoundTrip == InitRoundTrip /\ [][NextRoundTrip]_vars
(***************************************************************************)
(* Properties of the extraction pipeline                                   *)
(***************************************************************************)
\* the records made so far in the run, in extraction order
Records ==
    all_extracted_images
        \o (IF pc = "img_loop" THEN extracted_images ELSE <<>>)

\* the log lines of one kind
LogOf(kind) == SelectSeq(log, LAMBDA e : e.kind = kind)

\* the number a file name starts with: its leading digits
LeadingNumber(name) == IntOf(Take(name, DigitRun(name, 1)))

\* the number of images the document loop has gone through
ImagesVisited ==
    Sum([p \in 1..page_num |-> doc.pages[p]])
        + (IF pc = "img_loop" THEN img_index ELSE 0)

Returned == pc = "returned" /\ doc.open

\* C1: in a run of extract_all_images the records and the names of the
\* files written carry the numbers 1, 2, ..., k in extraction order, without
\* gap or repeat, k being the number of images written; an image that is
\* filtered out or raises takes no number.
C1_SequenceNumbers ==
    /\ \A i \in DOMAIN Records :
        /\ Records[i].numero = i
        /\ LeadingNumber(Records[i].archivo) = i
    /\ image_counter = Len(Records) + 1
    /\ files = {Records[i].archivo : i \in DOMAIN Records}
    /\ Cardinality(files) = Len(Records)
    /\ Len(LogOf("extraida")) = Len(Records)
    /\ Returned => result = Records

\* a finished run over four images of which two were written, one was
\* filtered out and one raised
C1_Witness ==
    /\ Returned
    /\ Len(log) = 4
    /\ Len(result) = 2
    /\ Len(LogOf("omitida")) = 1
    /\ Len(LogOf("error")) = 1
    /\ log[1].kind = "omitida"
    /\ log[4].kind = "extraida"

\* C2: an image whose extraction or writing raises leaves no record and
\* takes no number, and the loops go on: every image of every page of the
\* document is gone through, whatever raised before it.
C2_ErrorsContained ==
    /\ Len(log) = ImagesVisited
    /\ Len(Records) = Len(log) - Len(LogOf("error")) - Len(LogOf("omitida"))
    /\ image_counter = 1 + Len(LogOf("extraida"))
    /\ Returned => Len(log) = Sum(doc.pages)
    /\ \A i \in DOMAIN log :
        log[i].kind = "error" =>
            \A j \in DOMAIN Records : Records[j].archivo \notin partial

\* a finished run in which the first image of the first page raised and
\* later images of that page and of the next page were written
C2_Witness ==
    /\ Returned
    /\ Len(doc.pages) = 2
    /\ doc.pages[1] >= 2
    /\ log[1].kind = "error"
    /\ \E i, j \in DOMAIN result :
        result[i].pagina = 1 /\ result[j].pagina = 2

\* C3: when the document cannot be opened extract_all_images returns an
\* empty list and does nothing else: no page visited, no file written, no
\* report, the counter still 1.
C3_OpenFailure ==
    /\ ~doc.open => pc \in {"start", "returned"}
    /\ (pc = "returned" /\ ~doc.open) =>
        /\ result = <<>>
        /\ files = {}
        /\ partial = {}
        /\ report = <<>>
        /\ log = <<>>
        /\ image_counter = 1
        /\ page_num = 0
        /\ all_extracted_images = <<>>

C3_Witness == pc = "returned" /\ ~doc.open /\ result = <<>>

\* the tag of a question: Pregunta_ and a number, or Pregunta_Desconocida
IsQuestionTag(tag) ==
    /\ Len(tag) > Len(S_Pregunta_)
    /\ Take(tag, Len(S_Pregunta_)) = S_Pregunta_
    /\ \/ Drop(tag, Len(S_Pregunta_)) = S_Desconocida
       \/ \A i \in (Len(S_Pregunta_) + 1)..Len(tag) : IsDigit(tag[i])

\* what follows the sequence number in the name of the file of record r
NameTail(r) ==
    <<"_">> \o banco_preguntas \o <<"_">> \o pdf_prefix \o <<"_">>
        \o r.pregunta \o <<"_">> \o r.tipo_contenido \o <<"_", "P", "a", "g">>
        \o DecStr(r.pagina) \o <<".">> \o r.formato

\* the name of record r is made of its fields, after nDigits digits
NamedWith(r, nDigits) ==
    /\ DigitRun(r.archivo, 1) = nDigits
    /\ LeadingNumber(r.archivo) = r.numero
    /\ Drop(r.archivo, nDigits) = NameTail(r)
    /\ IsQuestionTag(r.pregunta)
    /\ r.tipo_contenido \in {S_Cientifica, S_General}
    /\ r.pagina \in 1..Len(doc.pages)

\* the number of decimal digits of n
RECURSIVE NumDigits(_)
NumDigits(n) == IF n < 10 THEN 1 ELSE 1 + NumDigits(n \div 10)

\* C4 as stated: every file is named NNN_<label>_<prefix>_Pregunta_<tag>_
\* <Category>_Pag<page>.<ext> with NNN of exactly 3 digits, whatever the
\* number of images.
C4_ExactlyThreeDigits ==
    Returned => \A i \in DOMAIN result : NamedWith(result[i], 3)

\* C4 amended: the same name, with the sequence number zero-padded to at
\* least 3 digits: exactly 3 up to 999, and all its digits from 1000 on.
C4_FilenameGrammar ==
    Returned =>
        /\ \A i \in DOMAIN result :
            NamedWith(result[i], Max(3, NumDigits(result[i].numero)))
        /\ files = {result[i].archivo : i \in DOMAIN result}

\* a finished run that wrote more than 1000 images
C4_Witness ==
    /\ Returned
    /\ Len(result) > 1000
    /\ Take(result[1000].archivo, 5) = <<"1", "0", "0", "0", "_">>
    /\ Take(result[7].archivo, 4) = <<"0", "0", "7", "_">>


(***************************************************************************)
(* Properties of the name sanitizers                                       *)
(***************************************************************************)
Done(f) == pc = "done" /\ fn = f

WhitespaceChars == Whitespace

SeparatorChars == WhitespaceChars \cup {"_", "-"}

\* the maximal runs of s made of characters outside seps, left to right
RECURSIVE Fragments(_, _)
Fragments(s, seps) ==
    IF s = <<>> THEN <<>>
    ELSE IF Head(s) \in seps THEN Fragments(Tail(s), seps)
    ELSE LET n == IF \A i \in DOMAIN s : s[i] \notin seps THEN Len(s)
                  ELSE (CHOOSE i \in DOMAIN s :
                            s[i] \in seps /\ \A j \in 1..(i - 1) : s[j] \notin seps)
                       - 1
         IN  <<Take(s, n)>> \o Fragments(Drop(s, n), seps)

\* the fragments of s, each capitalized, joined without separator
Compact(s, seps) ==
    LET fs == Fragments(RemoveSpecial(s), seps)
    IN  Join([i \in DOMAIN fs |-> Capitalize(fs[i])])

\* the name a sanitizer cleans, and what it falls back to
Stem(f, s) ==
    CASE f = "clean_banco_name" -> s
      [] f = "extract_pdf_prefix" -> SplitextRoot(Basename(s))
      [] f = "extract_folder_prefix" -> Basename(s)

Fallback(f) ==
    CASE f = "clean_banco_name" -> S_BancoPreguntas
      [] f = "extract_pdf_prefix" -> S_PDF
      [] f = "extract_folder_prefix" -> S_Carpeta

Bound(f) == IF f = "clean_banco_name" THEN BancoMaxLen ELSE PrefixMaxLen

SeparatorsOf(f) ==
    IF f = "clean_banco_name" THEN WhitespaceChars ELSE SeparatorChars

Sanitizers ==
    {"clean_banco_name", "extract_pdf_prefix", "extract_folder_prefix"}

\* C5: each name sanitizer returns, for every input, a non-empty string of
\* at most 20 characters (extract_pdf_prefix, extract_folder_prefix) or 15
\* (clean_banco_name), and its fallback PDF, Carpeta or BancoPreguntas when
\* nothing of the input is left after cleaning; the result is a function of
\* the input alone.
C5_BoundedNonEmpty ==
    \A f \in Sanitizers :
        Done(f) =>
            /\ ~ret.raised
            /\ ret.value # <<>>
            /\ Len(ret.value) <= Bound(f)
            /\ Compact(Stem(f, arg), SeparatorsOf(f)) = <<>> =>
                   ret.value = Fallback(f)

\* a folder name of more than 20 characters cut to 20
C5_Witness ==
    /\ Done("extract_folder_prefix")
    /\ Len(Compact(Basename(arg), SeparatorChars)) > PrefixMaxLen
    /\ Len(ret.value) = PrefixMaxLen

\* C6 as stated: for the document prefix, the folder prefix and the
\* question-bank label every run of whitespace, hyphens and underscores is
\* one separator of fragments, each fragment is capitalized and the
\* fragments are joined, so that the token returned holds no whitespace, no
\* hyphen and no underscore.
C6_NoSeparatorLeft ==
    \A f \in Sanitizers :
        Done(f) =>
            /\ \A i \in DOMAIN ret.value : ret.value[i] \notin SeparatorChars
            /\ Len(Compact(Stem(f, arg), SeparatorChars)) \in 1..Bound(f) =>
                   ret.value = Compact(Stem(f, arg), SeparatorChars)

\* C6 amended: this holds for the document prefix and the folder prefix;
\* the question-bank label is split on whitespace only, so it holds no
\* whitespace but keeps the hyphens and underscores of the input.
C6_SeparatorsByCaller ==
    \A f \in Sanitizers :
        Done(f) =>
            /\ \A i \in DOMAIN ret.value : ret.value[i] \notin SeparatorsOf(f)
            /\ Len(Compact(Stem(f, arg), SeparatorsOf(f))) \in 1..Bound(f) =>
                   ret.value = Compact(Stem(f, arg), SeparatorsOf(f))
            /\ (f # "extract_pdf_prefix"
                    /\ Compact(Stem(f, arg), SeparatorsOf(f)) # <<>>) =>
                   ret.value =
                       Take(Compact(Stem(f, arg), SeparatorsOf(f)), Bound(f))

\* a label made from an input with whitespace, a hyphen and an underscore:
\* the hyphen and the underscore are in the label, the whitespace is not
C6_Witness ==
    /\ Done("clean_banco_name")
    /\ \E i, j, k \in DOMAIN arg : arg[i] = " " /\ arg[j] = "-" /\ arg[k] = "_"
    /\ \E j, k \in DOMAIN ret.value : ret.value[j] = "-" /\ ret.value[k] = "_"
    /\ \A i \in DOMAIN ret.value : ret.value[i] # " "

(***************************************************************************)
(* Properties of parse_filename                                            *)
(***************************************************************************)
\* the positions of s where the token lit, letter case ignored, is followed
\* by a digit
TokenNumberAt(s, lit) ==
    {i \in DOMAIN s :
        /\ LitAtIgnoreCase(s, i, lit)
        /\ i + Len(lit) <= Len(s)
        /\ IsDigit(s[i + Len(lit)])}

\* the number that follows the token at position i
NumberAfter(s, i, lit) ==
    SubSeq(s, i + Len(lit), i + Len(lit) + DigitRun(s, i + Len(lit)) - 1)

\* the number after the first of the positions at, or None
FirstNumber(s, at, lit) ==
    IF at = {} THEN None
    ELSE NumberAfter(s, CHOOSE i \in at : \A j \in at : i <= j, lit)

\* the field type: Cientifica when the token occurs, in any letter case
TypeOf(s) ==
    IF \E i \in DOMAIN s : LitAtIgnoreCase(s, i, S_Cientifica)
    THEN S_Cientifica ELSE None

\* C7 as stated: parse_filename never fails and sets its fields one by one:
\* question is the number after the first "Pregunta_" or "Pregunta " (letter
\* case ignored), page the number after "Pag", type is Cientifica when that
\* token occurs; a field whose pattern is absent stays unset.
C7_EitherToken ==
    Done("parse_filename") =>
        /\ ~ret.raised
        /\ (ret.value.question = None) <=>
               (TokenNumberAt(arg, S_Pregunta_)
                    \cup TokenNumberAt(arg, S_Pregunta \o <<" ">>)) = {}
        /\ ret.value.page = FirstNumber(arg, TokenNumberAt(arg, S_Pag), S_Pag)
        /\ ret.value.type = TypeOf(arg)

\* C7 amended: the same, with question the number after the first
\* "Pregunta_" only: "Pregunta " followed by a number leaves it unset.
C7_UnderscoreToken ==
    Done("parse_filename") =>
        /\ ~ret.raised
        /\ ret.value.question =
               FirstNumber(arg, TokenNumberAt(arg, S_Pregunta_), S_Pregunta_)
        /\ ret.value.page = FirstNumber(arg, TokenNumberAt(arg, S_Pag), S_Pag)
        /\ ret.value.type = TypeOf(arg)
        /\ arg = <<"P", "r", "e", "g", "u", "n", "t", "a", "_", "2", "1", "_", "C", "i", "e", "n", "t", "i", "f", "i", "c", "a", "_", "P", "a", "g", "2">> =>
               ret.value = [question |-> <<"2", "1">>, type |-> S_Cientifica,
                            page |-> <<"2">>]
        /\ arg = <<"r", "a", "n", "d", "o", "m", "_", "f", "i", "l", "e">> =>
               ret.value = [question |-> None, type |-> None, page |-> None]

\* the name of the example parsed: question 21, type Cientifica, page 2
C7_Witness ==
    /\ Done("parse_filename")
    /\ arg = <<"P", "r", "e", "g", "u", "n", "t", "a", "_", "2", "1", "_", "C", "i", "e", "n", "t", "i", "f", "i", "c", "a", "_", "P", "a", "g", "2">>
    /\ ret.value.question = <<"2", "1">>
    /\ ret.value.type = S_Cientifica
    /\ ret.value.page = <<"2">>

(***************************************************************************)
(* Properties of extract_question_from_text                                *)
(***************************************************************************)
\* Pregunta_ followed by digits, or the sentinel
Tag(number) == Return(S_Pregunta_ \o number)

\* C8: the four patterns are tried in the order 1 to 4 and the first that
\* matches decides: a match of "1.<N> Pregunta <M>" gives Pregunta_<M>
\* whatever "Pregunta <K>" comes later; otherwise, when "Pregunta <N>"
\* matches, the number of its last occurrence is returned.
C8_FirstPatternDecides ==
    Done("extract_question_from_text") =>
        /\ FindAll(1, arg) # <<>> =>
               \E k \in DOMAIN FindAll(1, arg) : ret = Tag(FindAll(1, arg)[k][2])
        /\ (FindAll(1, arg) = <<>> /\ FindAll(2, arg) # <<>>) =>
               ret = Tag(FindAll(2, arg)[Len(FindAll(2, arg))][1])

\* the part of C8 on the first pattern alone
C8_SpecificPatternFirst ==
    (Done("extract_question_from_text") /\ FindAll(1, arg) # <<>>) =>
        ret = Tag(FindAll(1, arg)[Len(FindAll(1, arg))][2])

\* no pattern of the cascade matches and no line gives a number
NothingMatched(text) ==
    /\ \A p \in 1..NumPatterns : FindAll(p, text) = <<>>
    /\ LineScan(SplitOn(text, "\n")) = <<>>

\* the standalone numbers of one or two digits between 1 and 50, by position
StandaloneValid(text) ==
    {i \in DOMAIN text :
        /\ StandaloneNumberAt(text, i).end > 0
        /\ IntOf(StandaloneNumberAt(text, i).groups[1]) \in 1..50}

\* C9: when no pattern of the cascade and no line rule matches, the result
\* is Pregunta_<n> for the last standalone number n of one or two digits
\* between 1 and 50, and Pregunta_Desconocida exactly when there is none; in
\* every case the result is Pregunta_ followed by digits, or the sentinel.
C9_FallbackAndShape ==
    Done("extract_question_from_text") =>
        /\ ~ret.raised
        /\ IsQuestionTag(ret.value)
        /\ NothingMatched(arg) =>
               IF StandaloneValid(arg) = {}
               THEN ret = Tag(S_Desconocida)
               ELSE ret = Tag(StandaloneNumberAt(arg,
                              CHOOSE i \in StandaloneValid(arg) :
                                  \A j \in StandaloneValid(arg) : j <= i).groups[1])

\* the part of C9 on the texts where nothing matched
C9_FallbackOnly ==
    (Done("extract_question_from_text") /\ NothingMatched(arg)) =>
            /\ ~ret.raised
            /\ IsQuestionTag(ret.value)
            /\ IF StandaloneValid(arg) = {}
               THEN ret = Tag(S_Desconocida)
               ELSE ret = Tag(StandaloneNumberAt(arg,
                              CHOOSE i \in StandaloneValid(arg) :
                                  \A j \in StandaloneValid(arg) : j <= i).groups[1])

(***************************************************************************)
(* Properties of is_scientific_content                                     *)
(***************************************************************************)
\* the keyword occurs in the text, letter case ignored
OccursIgnoreCase(text, keyword) ==
    \E i \in 1..(Len(text) + 1) : LitAtIgnoreCase(text, i, keyword)

\* C10: is_scientific_content returns true or false for every text, and
\* true exactly when some keyword of the list occurs in the text, in any
\* letter case.
C10_CaseInsensitive ==
    Done("is_scientific_content") =>
        /\ ~ret.raised
        /\ ret.value \in BOOLEAN
        /\ ret.value <=>
               \E k \in DOMAIN scientific_keywords :
                   OccursIgnoreCase(arg, scientific_keywords[k])

\* the part of C10 on the keywords written in lower case
C10_LowerCaseKeywords ==
    Done("is_scientific_content") =>
        ret.value <=>
            \E k \in DOMAIN scientific_keywords :
                /\ scientific_keywords[k] = LowerStr(scientific_keywords[k])
                /\ OccursIgnoreCase(arg, scientific_keywords[k])

(***************************************************************************)
(* Properties of get_surrounding_text                                      *)
(***************************************************************************)
\* a minus b, and 0 when that is negative
Monus(a, b) == IF a >= b THEN a - b ELSE 0

\* a plus b, and top when that is more
CappedSum(a, b, top) == IF a + b <= top THEN a + b ELSE top

\* the first region: the image grown by the margin to the left, to the
\* right and downwards and by 3 margins upwards, kept inside the page
FirstRegionAsStated ==
    ret.value.search_rect =
        Rect(Monus(arg.image_rect.x0, arg.context_margin),
             Monus(arg.image_rect.y0, 3 * arg.context_margin),
             CappedSum(arg.image_rect.x1, arg.context_margin, arg.page.width),
             CappedSum(arg.image_rect.y1, arg.context_margin, arg.page.height))

\* C11 as stated: the second region spans the width of the page and runs
\* from the top of the page (y = 0) to the top edge of the image, whatever
\* the margin; the first region is the image grown by the margin to the
\* left, right and below and by 3 margins above, within the page.
C11_AboveFromTop ==
    Done("get_surrounding_text") =>
        /\ ret.value.above_image_rect =
               Rect(0, 0, arg.page.width, arg.image_rect.y0)
        /\ FirstRegionAsStated

\* C11 amended: the second region spans the width of the page and runs from
\* 2 margins above the top edge of the image (from y = 0 when that is off
\* the page) to the top edge of the image, so its height depends on the
\* margin; the first region is as stated.
C11_AboveBand ==
    Done("get_surrounding_text") =>
        /\ ~ret.raised
        /\ ret.value.above_image_rect =
               Rect(0, Monus(arg.image_rect.y0, 2 * arg.context_margin),
                    arg.page.width, arg.image_rect.y0)
        /\ FirstRegionAsStated

\* an image low on the page: the band above it starts below the top of the
\* page, and the first region is cut at the right edge of the page
C11_Witness ==
    /\ Done("get_surrounding_text")
    /\ arg.context_margin > 0
    /\ ret.value.above_image_rect.y0 > 0
    /\ ret.value.above_image_rect.y0 =
           arg.image_rect.y0 - 2 * arg.context_margin
    /\ ret.value.search_rect.x1 = arg.page.width
    /\ arg.image_rect.x1 + arg.context_margin > arg.page.width

(***************************************************************************)
(* Properties of generate_report                                           *)
(***************************************************************************)
\* the sum of the counts of a table of counts
RECURSIVE TotalOf(_)
TotalOf(counts) ==
    IF DOMAIN counts = {} THEN 0
    ELSE LET k == CHOOSE x \in DOMAIN counts : TRUE
         IN  counts[k]
                 + TotalOf([x \in DOMAIN counts \ {k} |-> counts[x]])

\* the report of the finished run
TheReport == report[1]

\* C12: in the report the counts by format add up to the number of
\* records, and so do the counts by page; the detail section has one block
\* for every record, in the order of the records, and leaves none out.
C12_ReportCounts ==
    Returned =>
        /\ Len(report) = 1
        /\ TotalOf(TheReport.formatos) = Len(result)
        /\ TotalOf(TheReport.paginas) = Len(result)
        /\ \A f \in DOMAIN TheReport.formatos : TheReport.formatos[f] >= 1
        /\ \A p \in DOMAIN TheReport.paginas : TheReport.paginas[p] >= 1
        /\ DOMAIN TheReport.detalle = DOMAIN result
        /\ \A i \in DOMAIN result :
            /\ TheReport.detalle[i].archivo = result[i].archivo
            /\ TheReport.detalle[i].numero = result[i].numero
            /\ TheReport.detalle[i].secuencia = i

\* a report of records of two formats on two pages, one of them not
\* scientific
C12_Witness ==
    /\ Returned
    /\ Len(result) >= 3
    /\ Cardinality(DOMAIN TheReport.formatos) = 2
    /\ Cardinality(DOMAIN TheReport.paginas) = 2
    /\ TheReport.generales >= 1
    /\ TheReport.cientificas >= 1
    /\ Len(TheReport.detalle) = Len(result)

(***************************************************************************)
(* Properties of extraer_imagenes_pdf run twice                            *)
(***************************************************************************)
\* the second run has returned
SecondReturned == pc = "returned" /\ ret # Return(<<>>)

\* what the first run left
FirstRun == ret.value[1]

\* C13: two runs of extraer_imagenes_pdf on the same document, each into an
\* empty output folder, leave the same set of file names and return the same
\* records, so the same tags and categories; the second run numbers its
\* images from 1 again.  A file stands for its name and its content for the
\* image it was written from, which the records describe.
C13_SameTwice ==
    SecondReturned =>
        /\ files = FirstRun.files
        /\ partial = FirstRun.partial
        /\ result = FirstRun.images
        /\ report = FirstRun.report
        /\ \A i \in DOMAIN result :
            /\ result[i].numero = i
            /\ result[i].archivo = FirstRun.images[i].archivo
            /\ result[i].pregunta = FirstRun.images[i].pregunta
            /\ result[i].tipo_contenido = FirstRun.images[i].tipo_contenido

\* both runs wrote two images, of the two categories
C13_Witness ==
    /\ SecondReturned
    /\ Len(FirstRun.images) = 2
    /\ Len(result) = 2
    /\ result[1].numero = 1
    /\ Cardinality(files) = 2
    /\ result[1].tipo_contenido # result[2].tipo_contenido

(***************************************************************************)
(* Properties of rename_files                                              *)
(***************************************************************************)
\* the folder that rename_files left
FolderAfter == ret.value.folder

\* the contents of the files of the folder that rename_files left
ContentsAfter == {FolderAfter[n] : n \in DOMAIN FolderAfter}

\* C14: rename_files destroys no file: whatever the names of the files of
\* the folder, names of the form NNN_<prefix>... among them, the folder
\* holds as many files after rename_files as before, and every file is
\* still there.
C14_NoFileLost ==
    Done("rename_files") =>
        /\ Cardinality(DOMAIN FolderAfter) = Len(arg.listing)
        /\ ContentsAfter = Range(arg.listing)

\* where os.rename refuses to replace a file (Windows) no file is lost
C14_KeptWhereRenameRefuses ==
    (Done("rename_files") /\ arg.platform = "nt") =>
        /\ Cardinality(DOMAIN FolderAfter) = Len(arg.listing)
        /\ ContentsAfter = Range(arg.listing)

\* in a folder without names of the form rename_files gives, every file
\* but a script is renamed and none is lost
C14_FreshNames ==
    (/\ Done("rename_files")
     /\ \A i \in DOMAIN arg.listing :
            ~IsDigit(arg.listing[i][1]))
        => /\ ContentsAfter = Range(arg.listing)
           /\ ret.value.renamed_count =
                  Len(SelectSeq(arg.listing,
                                LAMBDA f : ~EndsWith(f, <<".", "p", "y">>)))

(***************************************************************************)
(* Properties of parse_filename on the names the extractor writes          *)
(***************************************************************************)
\* the number of the question of a record, None for Pregunta_Desconocida
QuestionNumberOf(info) ==
    IF info.pregunta = S_Pregunta_ \o S_Desconocida THEN None
    ELSE Drop(info.pregunta, Len(S_Pregunta_))

\* parse_filename gave back what the extractor put in the name
GivesBack(info, parsed) ==
    /\ parsed.page = DecStr(info.pagina)
    /\ parsed.question = QuestionNumberOf(info)
    /\ parsed.type =
           (IF info.tipo_contenido = S_Cientifica THEN S_Cientifica ELSE None)

\* the start of the name of a record: number, bank label and prefix
HeadOf(info) ==
    Format03d(info.numero) \o <<"_">> \o info.banco_preguntas \o <<"_">>
        \o info.prefijo_pdf

\* C15: for every name the extractor writes, whatever the bank label and
\* the prefix of the document, parse_filename of the name without its
\* extension gives the page the extractor put, the number of the question
\* (none for Pregunta_Desconocida) and the type Cientifica exactly when the
\* category was Cientifica.
C15_RoundTrip ==
    Done("parse_filename") => GivesBack(arg, ret.value)

\* the round trip holds for the names in whose start (number, bank label,
\* prefix) parse_filename finds nothing
C15_RoundTripOfPlainStart ==
    (/\ Done("parse_filename")
     /\ parse_filename(HeadOf(arg)) =
            [question |-> None, type |-> None, page |-> None])
        => GivesBack(arg, ret.value)
====
